---- MODULE Spec2Model ----
(***************************************************************************)
(* Model of smb_mission_planner/mission_planner.py: the Mission smach      *)
(* state (goal sequencer) and its pose feedback callback.                  *)
(*                                                                         *)
(* Two threads share one Mission object:                                   *)
(*   - the state-machine thread, which runs Mission.execute (lines 55-85), *)
(*     Mission.setGoal (87-106) and Mission.reachedGoalWithTolerance       *)
(*     (121-131);                                                          *)
(*   - the rospy subscriber thread, which runs Mission.poseCallback        *)
(*     (108-119).                                                          *)
(* The code takes no lock, so the three attribute stores of poseCallback   *)
(* and the three attribute loads of reachedGoalWithTolerance are separate  *)
(* steps that interleave freely.                                           *)
(*                                                                         *)
(* Lengths and angles are integers counted in 1/Grid of a metre / radian.  *)
(* Every goal and every pose of the feedback topic (GoalSet, PoseSet,      *)
(* ScenarioPose) is a multiple of 1/8, so the values and their differences *)
(* are exact in binary floating point and no distance or angle between     *)
(* them falls on a tolerance: the integer comparisons below decide exactly *)
(* what the float comparisons of lines 125-126 decide. The inputs of the   *)
(* arrival predicate taken on its own (PredGoals, PredPoses) also hold     *)
(* tenths, to reach the tolerances themselves; they are chosen so that     *)
(* lines 123-126 evaluated in IEEE-754 double arithmetic give, on each of  *)
(* them, the result of the exact comparison.                               *)
(*                                                                         *)
(* mission_data.keys() is read as the ordered list of goal names (the      *)
(* list-valued keys() of an ordered mapping), indexed from 0.              *)
(***************************************************************************)
EXTENDS Integers, Sequences, FiniteSets, TLC

\* ------------------------------------------------------------------ bounds
\* Longest goal list of a modelled mission.
MaxGoals == 2

\* Most missions of a modelled mission plan.
MaxMissions == 2

\* ------------------------------------------------------- program constants
Grid == 2 * 2 * 2 * 5

\* distance_to_goal_tolerance_m = 0.3 (line 52), as a fraction.
DistTolNum == 3
DistTolDen == 10
\* angle_to_goal_tolerance_rad = 0.7 (line 53), as a fraction.
AngleTolNum == 7
AngleTolDen == 10
\* countdown_s = 4 (line 67).
CountdownStart_five == 4 + 1
CountdownStart == 4

\* --------------------------------------------------------------- the data
Goal(x, y, yaw) == [x_m |-> x, y_m |-> y, yaw_rad |-> yaw]

\* Goals a mission file can name: (0, 0, 0) and (5, 0, 0).
GoalSet == { Goal(0, 0, 0), Goal(5 * Grid, 0, 0) }

RECURSIVE SeqsUpTo(_, _)
SeqsUpTo(S, n) ==
    IF n = 0 THEN { <<>> }
    ELSE LET shorter == SeqsUpTo(S, n - 1)
         IN  shorter \cup { Append(s, e) : s \in { t \in shorter : Len(t) = n - 1 }, e \in S }

\* The goal lists of the modelled missions, in traversal order.
Missions == SeqsUpTo(GoalSet, MaxGoals)

\* Poses the feedback topic delivers (x, y, yaw): two near (0,0,0), each
\* inside both tolerances of it, (0.25, 0.125, -0.625) and
\* (0.125, 0.25, 0.625); one exactly at (5,0,0); one at (0,0) but turned by
\* 1 rad, outside the angle tolerance of both goals.
PoseSet ==
    { <<2 * (Grid \div 8), Grid \div 8, -5 * (Grid \div 8)>>,
      <<Grid \div 8, 2 * (Grid \div 8), 5 * (Grid \div 8)>>,
      <<5 * Grid, 0, 0>>,
      <<0, 0, Grid>> }

\* The one pose delivered in the two-goal scenario: the robot at (0,0,0).
ScenarioPose == <<0, 0, 0>>

\* Every pose some feedback message carries.
Delivered == PoseSet \cup { ScenarioPose }

\* tf.transformations.quaternion_from_euler(0., 0., yaw): the rotation by
\* yaw about z, (0, 0, sin(yaw/2), cos(yaw/2)), kept as symbolic terms.
quaternion_from_euler(yaw) ==
    [x |-> 0, y |-> 0, z |-> [fn |-> "sin", half_of |-> yaw],
                       w |-> [fn |-> "cos", half_of |-> yaw]]

\* tf.transformations.euler_from_quaternion(q)[2] for a rotation about z
\* with yaw in (-pi, pi]: the angle whose half-angle sine and cosine q holds.
euler_from_quaternion(q) == q.z.half_of

\* The PoseStamped message built by setGoal (lines 90-101).
GoalMsg_swapped(x_m, y_m, yaw_rad) ==
    [frame_id |-> "world", seq |-> 0,
     position |-> [x |-> y_m, y |-> x_m, z |-> 0],
     orientation |-> quaternion_from_euler(yaw_rad)]
GoalMsg(x_m, y_m, yaw_rad) ==
    [frame_id |-> "world", seq |-> 0,
     position |-> [x |-> x_m, y |-> y_m, z |-> 0],
     orientation |-> quaternion_from_euler(yaw_rad)]

\* A PoseStamped message received on /base_pose_measured.
FeedbackMsg(p) ==
    [position |-> [x |-> p[1], y |-> p[2]],
     orientation |-> quaternion_from_euler(p[3])]

NoMsg == FeedbackMsg(<<0, 0, 0>>)

\* ------------------------------------------------------- pure computations
\* Line 56: goal_idx >= len(mission_data.keys()).
NoGoalsLeft_strict(idx, n) == idx > n
NoGoalsLeft(idx, n) == idx >= n

\* Line 61: keys()[goal_idx] needs an integer index inside the list.
ValidIndex(idx, is_float, n) == ~is_float /\ idx >= 0 /\ idx < n

Abs(v) == IF v < 0 THEN -v ELSE v

\* Lines 123 and 125: sqrt(dx^2 + dy^2) <= 0.3, squared and scaled.
DistanceSatisfied_loose(gx, gy, ex, ey) == TRUE
DistanceSatisfied(gx, gy, ex, ey) ==
    ((gx - ex) * (gx - ex) + (gy - ey) * (gy - ey)) * DistTolDen * DistTolDen
        <= DistTolNum * DistTolNum * Grid * Grid

\* Lines 124 and 126: abs(goal_yaw - estimated_yaw) <= 0.7, scaled.
AngleSatisfied_strict(gyaw, eyaw) ==
    Abs(gyaw - eyaw) * AngleTolDen < AngleTolNum * Grid
AngleSatisfied(gyaw, eyaw) ==
    Abs(gyaw - eyaw) * AngleTolDen <= AngleTolNum * Grid

\* Line 128.
Reached(gx, gy, gyaw, ex, ey, eyaw) ==
    DistanceSatisfied(gx, gy, ex, ey) /\ AngleSatisfied(gyaw, eyaw)

\* Lines 129-131: the value returned when an attribute is missing.
ExceptResult_true == TRUE
ExceptResult == FALSE

\* Line 78: the test that chooses between 'Aborted' and skipping.
IsStartingGoal_never(idx) == idx < 0
IsStartingGoal_always(idx) == idx >= 0
IsStartingGoal(idx) == idx = 0

\* Lines 71 and 84: goal_idx += 1.
NextIdx_two(idx) == idx + 2
NextIdx_stay(idx) == idx
NextIdx(idx) == idx + 1

\* Line 58: the index a completed mission is reset to.
CompletedIdx_keep(idx) == idx
CompletedIdx(idx) == 0

EstimatedAttrs == { "estimated_x_m", "estimated_y_m", "estimated_yaw_rad" }
GoalAttrs == { "goal_x_m", "goal_y_m", "goal_yaw_rad" }

\* Lines 104-106: the active goal that setGoal keeps, given the goal it was
\* called with and the one kept before.
GoalSnapshot_stale(called, kept) == kept
GoalSnapshot(called, kept) == called

\* Lines 104-106: the attributes of self after setGoal.
AttrsAfterSetGoal_fresh(a) == (a \ EstimatedAttrs) \cup GoalAttrs
AttrsAfterSetGoal(a) == a \cup GoalAttrs

\* Line 119: the attributes of self after the last store of poseCallback.
AttrsAfterYawStore_lost(a) == a
AttrsAfterYawStore(a) == a \cup { "estimated_yaw_rad" }

\* ------------------------------------------------------------------ state
VARIABLES
    mission_data,       \* the mission's ordered goals (line 47)
    goal_idx,           \* self.goal_idx, its numeric value
    goal_idx_float,     \* TRUE when self.goal_idx holds the float 0. (line 80)
    attrs,              \* the names of the attributes self has, of those
                        \* that setGoal and poseCallback create
    goal_x_m, goal_y_m, goal_yaw_rad,
    estimated_x_m, estimated_y_m, estimated_yaw_rad,
    published,          \* messages published by the running/last activation
    pc,                 \* position of the state-machine thread
    current_goal,       \* local of execute (line 62)
    countdown_s,        \* local of execute (line 67)
    rd_x, rd_y,         \* estimated_x_m, estimated_y_m as loaded on line 123
    cb_pc,              \* position of the subscriber thread
    cb_msg,             \* the message poseCallback is handling
    outcome,            \* what the last activation returned or raised
    \* observation of the run (no code reads these)
    start_idx,          \* goal_idx when the running/last activation began
    run,                \* activations that returned 'Next Goal' since the
                        \* index was last 0 by construction or reset
    how,                \* which return of execute ended the last activation
    checks,             \* arrival checks begun by the activation
    waits,              \* rospy.sleep(1) calls completed by the activation
    published_at_check, \* len(published) when the first check began
    lead_y, lead_yaw,   \* during a check: how many updates the stored y / yaw
                        \* is ahead of the update whose x the check loaded
                        \* (-1 behind, 0 the same update, 1 a later one)
    at_start,           \* "in", "out" or "none": the stored pose when the
                        \* check began (none: absent or being rewritten)
    last_check,         \* what the check that just finished observed
    updates_done,       \* TRUE once a poseCallback has returned
    published_run,      \* messages published since the run of the mission
                        \* began (the index was 0 by construction or reset)
    \* the mission plan around the Mission object (MissionPlanner.main)
    plan,               \* the goal lists of the plan's missions, in order
    active,             \* which mission's sequencer the plan has entered
    plan_state          \* "running", "Success" or "Failure"

vars == << mission_data, goal_idx, goal_idx_float, attrs,
           goal_x_m, goal_y_m, goal_yaw_rad,
           estimated_x_m, estimated_y_m, estimated_yaw_rad,
           published, pc, current_goal, countdown_s, rd_x, rd_y,
           cb_pc, cb_msg, outcome, start_idx, run, how, checks, waits,
           published_at_check, lead_y, lead_yaw,
           at_start, last_check, updates_done, published_run,
           plan, active, plan_state >>

goalVars == << goal_x_m, goal_y_m, goal_yaw_rad >>
estVars == << estimated_x_m, estimated_y_m, estimated_yaw_rad >>
leadVars == << lead_y, lead_yaw >>
cbVars == << cb_pc, cb_msg, updates_done >>
execLocals == << current_goal, countdown_s, rd_x, rd_y >>
planVars == << plan, active, plan_state >>

NoCheck ==
    [result |-> "none", torn |-> FALSE, mixed |-> FALSE,
     at_start |-> "none", at_end |-> "none"]

\* Mission.__init__ (lines 45-53); no pose and no goal attribute exists yet.
Mission_init ==
    /\ goal_idx = 0
    /\ goal_idx_float = FALSE
    /\ attrs = {}
    /\ goal_x_m = 0 /\ goal_y_m = 0 /\ goal_yaw_rad = 0
    /\ estimated_x_m = 0 /\ estimated_y_m = 0 /\ estimated_yaw_rad = 0
    /\ published = <<>>
    /\ pc = "idle"
    /\ current_goal = Goal(0, 0, 0)
    /\ countdown_s = 0
    /\ rd_x = 0 /\ rd_y = 0
    /\ cb_pc = "idle"
    /\ cb_msg = NoMsg
    /\ outcome = "none"
    /\ start_idx = -1
    /\ run = 0
    /\ how = "none"
    /\ checks = 0 /\ waits = 0
    /\ published_at_check = 0
    /\ lead_y = 0 /\ lead_yaw = 0
    /\ at_start = "none"
    /\ last_check = NoCheck
    /\ updates_done = FALSE
    /\ published_run = <<>>

\* One Mission object, given any of the modelled missions.
Init ==
    /\ mission_data \in Missions
    /\ plan = << mission_data >>
    /\ active = 1
    /\ plan_state = "running"
    /\ Mission_init

\* The observation of a new activation.
BeginActivation ==
    /\ start_idx' = goal_idx
    /\ checks' = 0 /\ waits' = 0
    /\ published' = <<>>
    /\ published_at_check' = 0
    /\ at_start' = "none"
    /\ last_check' = NoCheck
    /\ published_run' = IF outcome = "Next Goal" THEN published_run ELSE <<>>

\* ------------------------------------------------- Mission.execute thread
\* Lines 55-59: no goal left; reset the index and return 'Completed'.
Execute_Completed ==
    /\ pc = "idle"
    /\ NoGoalsLeft(goal_idx, Len(mission_data))
    /\ BeginActivation
    /\ goal_idx' = CompletedIdx(goal_idx)
    /\ goal_idx_float' = FALSE
    /\ outcome' = "Completed"
    /\ how' = "completed"
    /\ run' = 0
    /\ UNCHANGED << mission_data, planVars,
                    attrs, goalVars, estVars, pc, execLocals,
                    cbVars, leadVars >>

\* Lines 61-62: select the goal at the current index.
Execute_SelectGoal ==
    /\ pc = "idle"
    /\ ~NoGoalsLeft(goal_idx, Len(mission_data))
    /\ ValidIndex(goal_idx, goal_idx_float, Len(mission_data))
    /\ BeginActivation
    /\ current_goal' = mission_data[goal_idx + 1]
    /\ pc' = "setGoal"
    /\ outcome' = "running"
    /\ how' = "none"
    /\ UNCHANGED << run, mission_data, planVars,
                    goal_idx, goal_idx_float, attrs, goalVars,
                    estVars, countdown_s, rd_x, rd_y, cbVars, leadVars >>

\* Line 61 with an index that is no list index (the float 0. of line 80, or
\* one outside the list): the subscript raises and execute returns nothing.
Execute_IndexRaises ==
    /\ pc = "idle"
    /\ ~NoGoalsLeft(goal_idx, Len(mission_data))
    /\ ~ValidIndex(goal_idx, goal_idx_float, Len(mission_data))
    /\ BeginActivation
    /\ pc' = "raised"
    /\ outcome' = "raised"
    /\ how' = "raised"
    /\ UNCHANGED << run, mission_data, planVars,
                    goal_idx, goal_idx_float, attrs, goalVars,
                    estVars, execLocals, cbVars, leadVars >>

\* The active goal as stored: self.goal_x_m, goal_y_m, goal_yaw_rad.
ActiveGoal == Goal(goal_x_m, goal_y_m, goal_yaw_rad)

\* Line 64 and setGoal (lines 87-106): publish the goal, then keep it as the
\* active goal; line 67 starts the countdown.
SetGoal ==
    /\ pc = "setGoal"
    /\ published' = Append(published,
                           GoalMsg(current_goal.x_m, current_goal.y_m,
                                   current_goal.yaw_rad))
    /\ published_run' = Append(published_run,
                               GoalMsg(current_goal.x_m, current_goal.y_m,
                                       current_goal.yaw_rad))
    /\ goal_x_m' = GoalSnapshot(current_goal, ActiveGoal).x_m
    /\ goal_y_m' = GoalSnapshot(current_goal, ActiveGoal).y_m
    /\ goal_yaw_rad' = GoalSnapshot(current_goal, ActiveGoal).yaw_rad
    /\ attrs' = AttrsAfterSetGoal(attrs)
    /\ countdown_s' = CountdownStart
    /\ pc' = "loop"
    /\ UNCHANGED << run, mission_data, planVars,
                    goal_idx, goal_idx_float, estVars,
                    current_goal, rd_x, rd_y, cbVars, outcome, start_idx, how,
                    checks, waits, published_at_check, leadVars, at_start,
                    last_check >>

\* The stored pose as a check that loaded all of it at once would judge it.
StoredPose ==
    IF cb_pc = "idle" /\ EstimatedAttrs \subseteq attrs
    THEN IF Reached(goal_x_m, goal_y_m, goal_yaw_rad,
                    estimated_x_m, estimated_y_m, estimated_yaw_rad)
         THEN "in" ELSE "out"
    ELSE "none"

\* Lines 69-76 after a check that returned FALSE: log, then go to sleep.
NotReached ==
    /\ pc' = "sleep"
    /\ UNCHANGED << goal_idx, goal_idx_float, outcome, how, run >>

\* Lines 70-72 after a check that returned TRUE: advance and return.
GoalReached ==
    /\ pc' = "idle"
    /\ goal_idx' = NextIdx(goal_idx)
    /\ outcome' = "Next Goal"
    /\ how' = "arrival"
    /\ run' = run + 1
    /\ UNCHANGED goal_idx_float

\* The end of reachedGoalWithTolerance (lines 128-131) and the branch of
\* execute on its value (line 69). For last_check: torn, the loads were not
\* all of one update; mixed, the loaded triple is no pose any update
\* delivered; excepted, the except path was taken; began, at_start.
AfterCheck(result, torn, mixed, excepted, began) ==
    /\ IF result THEN GoalReached ELSE NotReached
    /\ rd_x' = 0 /\ rd_y' = 0
    /\ lead_y' = 0 /\ lead_yaw' = 0
    /\ last_check' = [result |-> IF excepted THEN "except"
                                 ELSE IF result THEN "true" ELSE "false",
                      torn |-> torn, mixed |-> mixed,
                      at_start |-> began, at_end |-> StoredPose]

\* Line 68 with countdown left, line 69, and the first load of line 123:
\* self.estimated_x_m (AttributeError when no pose was stored yet).
Reached_LoadX ==
    /\ pc = "loop"
    /\ countdown_s # 0
    /\ checks' = checks + 1
    /\ published_at_check' = IF checks = 0 THEN Len(published)
                             ELSE published_at_check
    /\ at_start' = StoredPose
    /\ IF "estimated_x_m" \in attrs
       THEN /\ rd_x' = estimated_x_m
            /\ lead_y' = IF cb_pc = "store_y" THEN -1 ELSE 0
            /\ lead_yaw' = IF cb_pc \in { "store_y", "store_yaw" } THEN -1 ELSE 0
            /\ pc' = "load_y"
            /\ UNCHANGED << goal_idx, goal_idx_float, outcome, how, run,
                            rd_y, last_check >>
       ELSE AfterCheck(ExceptResult, FALSE, FALSE, TRUE, StoredPose)
    /\ UNCHANGED << mission_data, planVars,
                    published_run, attrs, goalVars, estVars, published,
                    current_goal, countdown_s, cbVars, start_idx, waits >>

\* The second load of line 123: self.estimated_y_m.
Reached_LoadY ==
    /\ pc = "load_y"
    /\ IF "estimated_y_m" \in attrs
       THEN /\ rd_y' = estimated_y_m
            /\ pc' = "load_yaw"
            /\ UNCHANGED << goal_idx, goal_idx_float, outcome, how, run,
                            rd_x, leadVars, last_check >>
       ELSE AfterCheck(ExceptResult, FALSE, FALSE, TRUE, at_start)
    /\ UNCHANGED << mission_data, planVars,
                    published_run, attrs, goalVars, estVars, published,
                    current_goal, countdown_s, cbVars, start_idx, waits,
                    checks, published_at_check, at_start >>

\* Line 124 loads self.estimated_yaw_rad; lines 125-128 compare.
Reached_LoadYaw ==
    /\ pc = "load_yaw"
    /\ IF "estimated_yaw_rad" \in attrs
       THEN AfterCheck(Reached(goal_x_m, goal_y_m, goal_yaw_rad,
                               rd_x, rd_y, estimated_yaw_rad),
                       lead_y # 0 \/ lead_yaw # 0,
                       << rd_x, rd_y, estimated_yaw_rad >> \notin Delivered,
                       FALSE, at_start)
       ELSE AfterCheck(ExceptResult, FALSE, FALSE, TRUE, at_start)
    /\ UNCHANGED << mission_data, planVars,
                    published_run, attrs, goalVars, estVars, published,
                    current_goal, countdown_s, cbVars, start_idx, waits,
                    checks, published_at_check, at_start >>

\* Lines 75-76: rospy.sleep(1), then countdown_s -= 1.
Sleep ==
    /\ pc = "sleep"
    /\ waits' = waits + 1
    /\ countdown_s' = countdown_s - 1
    /\ pc' = "loop"
    /\ at_start' = "none"
    /\ last_check' = NoCheck
    /\ UNCHANGED << run, mission_data, planVars,
                    published_run, goal_idx, goal_idx_float, attrs, goalVars,
                    estVars, published, current_goal, rd_x, rd_y, cbVars,
                    outcome, start_idx, how, checks, published_at_check,
                    leadVars >>

\* Lines 77-85: the countdown ended; abort at the starting goal, else skip.
\* last_check.at_end keeps the stored pose as it was when the loop was left.
Execute_CountdownEnded_recheck ==
    /\ pc = "loop"
    /\ countdown_s = 0
    /\ IF StoredPose = "in"
       THEN /\ goal_idx' = NextIdx(goal_idx)
            /\ goal_idx_float' = goal_idx_float
            /\ outcome' = "Next Goal"
            /\ run' = run + 1
       ELSE IF IsStartingGoal(goal_idx)
       THEN /\ goal_idx' = 0
            /\ goal_idx_float' = TRUE
            /\ outcome' = "Aborted"
            /\ run' = 0
       ELSE /\ goal_idx' = NextIdx(goal_idx)
            /\ goal_idx_float' = goal_idx_float
            /\ outcome' = "Next Goal"
            /\ run' = run + 1
    /\ how' = "countdown"
    /\ pc' = "idle"
    /\ last_check' = [NoCheck EXCEPT !.at_end = StoredPose]
    /\ UNCHANGED << mission_data, planVars, published_run, attrs, goalVars,
                    estVars, published, execLocals, cbVars, start_idx, checks,
                    waits, published_at_check, leadVars, at_start >>
Execute_CountdownEnded ==
    /\ pc = "loop"
    /\ countdown_s = 0
    /\ IF IsStartingGoal(goal_idx)
       THEN /\ goal_idx' = 0
            /\ goal_idx_float' = TRUE
            /\ outcome' = "Aborted"
            /\ run' = 0
       ELSE /\ goal_idx' = NextIdx(goal_idx)
            /\ goal_idx_float' = goal_idx_float
            /\ outcome' = "Next Goal"
            /\ run' = run + 1
    /\ how' = "countdown"
    /\ pc' = "idle"
    /\ last_check' = [NoCheck EXCEPT !.at_end = StoredPose]
    /\ UNCHANGED << mission_data, planVars, published_run, attrs, goalVars,
                    estVars, published, execLocals, cbVars, start_idx, checks,
                    waits, published_at_check, leadVars, at_start >>

\* ------------------------------------------------ Mission.poseCallback thread
Ahead(lead) == IF lead < 1 THEN lead + 1 ELSE lead

\* Lines 109-117: a message arrives; its fields are unpacked and
\* self.estimated_x_m is stored.
StoreX(p) ==
    /\ cb_pc = "idle"
    /\ cb_msg' = FeedbackMsg(p)
    /\ estimated_x_m' = FeedbackMsg(p).position.x
    /\ attrs' = attrs \cup { "estimated_x_m" }
    /\ cb_pc' = "store_y"
    /\ UNCHANGED << run, mission_data, planVars,
                    published_run, goal_idx, goal_idx_float, goalVars,
                    estimated_y_m, estimated_yaw_rad, published, pc,
                    execLocals, outcome, start_idx, how, checks, waits,
                    published_at_check, leadVars, at_start, last_check,
                    updates_done >>

\* Any pose of the topic may be the one delivered.
PoseCallback_StoreX == \E p \in PoseSet : StoreX(p)

\* Line 118: self.estimated_y_m is stored.
PoseCallback_StoreY ==
    /\ cb_pc = "store_y"
    /\ estimated_y_m' = cb_msg.position.y
    /\ attrs' = attrs \cup { "estimated_y_m" }
    /\ lead_y' = IF pc = "load_y" THEN Ahead(lead_y) ELSE lead_y
    /\ cb_pc' = "store_yaw"
    /\ UNCHANGED << run, mission_data, planVars,
                    published_run, goal_idx, goal_idx_float, goalVars,
                    estimated_x_m, estimated_yaw_rad, published, pc,
                    execLocals, cb_msg, outcome, start_idx, how, checks,
                    waits, published_at_check, lead_yaw, at_start, last_check,
                    updates_done >>

\* Line 119: self.estimated_yaw_rad is stored and the callback returns.
PoseCallback_StoreYaw ==
    /\ cb_pc = "store_yaw"
    /\ estimated_yaw_rad' = euler_from_quaternion(cb_msg.orientation)
    /\ attrs' = AttrsAfterYawStore(attrs)
    /\ lead_yaw' = IF pc \in { "load_y", "load_yaw" } THEN Ahead(lead_yaw)
                   ELSE lead_yaw
    /\ cb_pc' = "idle"
    /\ cb_msg' = NoMsg
    /\ updates_done' = TRUE
    /\ UNCHANGED << run, mission_data, planVars,
                    published_run, goal_idx, goal_idx_float, goalVars,
                    estimated_x_m, estimated_y_m, published, pc, execLocals,
                    outcome, start_idx, how, checks, waits,
                    published_at_check, lead_y, at_start, last_check >>

Next ==
    \/ Execute_Completed
    \/ Execute_SelectGoal
    \/ Execute_IndexRaises
    \/ SetGoal
    \/ Reached_LoadX
    \/ Reached_LoadY
    \/ Reached_LoadYaw
    \/ Sleep
    \/ Execute_CountdownEnded
    \/ PoseCallback_StoreX
    \/ PoseCallback_StoreY
    \/ PoseCallback_StoreYaw

Spec == Init /\ [][Next]_vars

\* A step of the state-machine thread: of execute and what it calls.
ExecuteStep ==
    \/ Execute_Completed
    \/ Execute_SelectGoal
    \/ Execute_IndexRaises
    \/ SetGoal
    \/ Reached_LoadX
    \/ Reached_LoadY
    \/ Reached_LoadYaw
    \/ Sleep
    \/ Execute_CountdownEnded

\* The state-machine thread keeps running: smach executes the state it has
\* entered, execute runs on to its return (rospy.sleep(1) returns), and the
\* machine executes the Mission state again after 'Next Goal'. Nothing is
\* assumed of the subscriber thread or of the feedback topic.
FairSpec == Spec /\ WF_vars(ExecuteStep)

\* ------------------------------------------- the single-feedback scenario
\* The feedback topic delivers one message, the pose (0,0,0), and the
\* callback handling it returns before the first arrival check begins; no
\* other message ever arrives. The state-machine thread runs as in Spec.
Scenario_Feedback == ~updates_done /\ StoreX(ScenarioPose)

\* Line 69 in the scenario: a check begins only once the pose is stored.
Scenario_LoadX == updates_done /\ Reached_LoadX

ScenarioNext ==
    \/ Execute_Completed
    \/ Execute_SelectGoal
    \/ Execute_IndexRaises
    \/ SetGoal
    \/ Scenario_LoadX
    \/ Reached_LoadY
    \/ Reached_LoadYaw
    \/ Sleep
    \/ Execute_CountdownEnded
    \/ Scenario_Feedback
    \/ PoseCallback_StoreY
    \/ PoseCallback_StoreYaw

ScenarioSpec == Init /\ [][ScenarioNext]_vars

\* ---------------------------------------- the arrival predicate on its own
\* reachedGoalWithTolerance (lines 121-131) applied once, with no callback
\* running meanwhile, to a Mission inside an activation: the goal is
\* published and kept (setGoal has returned) and the first update of the
\* feedback topic has done `stored` of its three stores.
Tenth == Grid \div 10

\* Goals with heading 0 at (0,0) and (5,0), and one with heading 3.1.
PredGoals == GoalSet \cup { Goal(0, 0, 31 * Tenth) }

\* Poses on, just inside and just outside the two tolerances of the goals:
\* x in {0, 0.125, 0.3, 0.325, 4.7, 5.3, 5.325}, y in {0, 0.25, 0.3},
\* heading in {0, 0.7, -0.7, 0.725, 2.5, 3.1, -3.1}.
PredPoses ==
    { << x, y, yaw >> :
        x \in { 0, Grid \div 8, 3 * Tenth, 3 * Tenth + 1, 47 * Tenth,
                53 * Tenth, 53 * Tenth + 1 },
        y \in { 0, 2 * (Grid \div 8), 3 * Tenth },
        yaw \in { 0, 7 * Tenth, -7 * Tenth, 7 * Tenth + 1, 25 * Tenth,
                  31 * Tenth, -31 * Tenth } }

PredInit ==
    \E g \in PredGoals, p \in PredPoses, stored \in 0..3 :
        /\ mission_data = << g >>
        /\ plan = << mission_data >>
        /\ active = 1
        /\ plan_state = "running"
        /\ goal_idx = 0
        /\ goal_idx_float = FALSE
        /\ attrs = GoalAttrs \cup
                   (IF stored >= 1 THEN { "estimated_x_m" } ELSE {}) \cup
                   (IF stored >= 2 THEN { "estimated_y_m" } ELSE {}) \cup
                   (IF stored >= 3 THEN { "estimated_yaw_rad" } ELSE {})
        /\ goal_x_m = g.x_m /\ goal_y_m = g.y_m /\ goal_yaw_rad = g.yaw_rad
        /\ estimated_x_m = IF stored >= 1 THEN p[1] ELSE 0
        /\ estimated_y_m = IF stored >= 2 THEN p[2] ELSE 0
        /\ estimated_yaw_rad = IF stored >= 3 THEN p[3] ELSE 0
        /\ published = << GoalMsg(g.x_m, g.y_m, g.yaw_rad) >>
        /\ published_run = << GoalMsg(g.x_m, g.y_m, g.yaw_rad) >>
        /\ pc = "loop"
        /\ current_goal = g
        /\ countdown_s = CountdownStart
        /\ rd_x = 0 /\ rd_y = 0
        /\ cb_pc = CASE stored = 1 -> "store_y"
                      [] stored = 2 -> "store_yaw"
                      [] OTHER -> "idle"
        /\ cb_msg = IF stored \in { 1, 2 } THEN FeedbackMsg(p) ELSE NoMsg
        /\ updates_done = (stored = 3)
        /\ outcome = "running"
        /\ start_idx = 0
        /\ run = 0
        /\ how = "none"
        /\ checks = 0 /\ waits = 0
        /\ published_at_check = 0
        /\ lead_y = 0 /\ lead_yaw = 0
        /\ at_start = "none"
        /\ last_check = NoCheck

\* The first arrival check of the activation, and nothing else.
Pred_LoadX == checks = 0 /\ Reached_LoadX

PredNext ==
    \/ Pred_LoadX
    \/ Reached_LoadY
    \/ Reached_LoadYaw

PredSpec == PredInit /\ [][PredNext]_vars

\* ------------------------------------------------------- the mission plan
\* MissionPlanner.main (lines 29-38) has mission_plan.createMissionPlan
\* build one Mission state per mission and executes the resulting state
\* machine. The wiring of that machine is the one the design document gives
\* for the plan builder: 'Next Goal' of a mission's state leads back to the
\* same state, 'Completed' to the state of the next mission or, for the last
\* one, to the plan's success, 'Aborted' to the plan's failure.
\*
\* The variables of the Mission object are those of the state the plan has
\* entered. Every Mission subscribes to the same topic from construction
\* (line 50), so the pose a newly entered state holds is the pose the state
\* before it held.
PlanMissions ==
    { << Goal(0, 0, 0) >>, << Goal(0, 0, 0), Goal(5 * Grid, 0, 0) >> }

Plans == SeqsUpTo(PlanMissions, MaxMissions) \ { <<>> }

\* Where the plan goes when the state of mission i of n returns out.
Wiring_retry(i, out, n) ==
    IF out = "Completed"
    THEN IF i < n THEN [state |-> "running", mission |-> i + 1]
         ELSE [state |-> "Success", mission |-> i]
    ELSE [state |-> "running", mission |-> i]
Wiring(i, out, n) ==
    IF out = "Next Goal" THEN [state |-> "running", mission |-> i]
    ELSE IF out = "Completed"
    THEN IF i < n THEN [state |-> "running", mission |-> i + 1]
         ELSE [state |-> "Success", mission |-> i]
    ELSE [state |-> "Failure", mission |-> i]

PlanInit ==
    /\ plan \in Plans
    /\ active = 1
    /\ plan_state = "running"
    /\ mission_data = plan[1]
    /\ Mission_init

\* The plan is about to execute the state it has entered: at the start, or
\* again after that state returned an outcome wired back to it.
Entered ==
    /\ plan_state = "running"
    /\ pc = "idle"
    /\ \/ outcome = "none"
       \/ Wiring(active, outcome, Len(plan)) =
              [state |-> "running", mission |-> active]

Plan_Completed == Entered /\ Execute_Completed

Plan_SelectGoal == Entered /\ Execute_SelectGoal

\* The outcome leads to the state of the next mission: a Mission object as
\* constructed (index 0, no active goal), holding the pose of the topic.
Plan_Advance ==
    /\ plan_state = "running"
    /\ pc = "idle"
    /\ outcome \in { "Completed", "Aborted", "Next Goal" }
    /\ Wiring(active, outcome, Len(plan)) =
           [state |-> "running", mission |-> active + 1]
    /\ active' = active + 1
    /\ mission_data' = plan[active + 1]
    /\ goal_idx' = 0
    /\ goal_idx_float' = FALSE
    /\ attrs' = attrs \ GoalAttrs
    /\ goal_x_m' = 0 /\ goal_y_m' = 0 /\ goal_yaw_rad' = 0
    /\ current_goal' = Goal(0, 0, 0)
    /\ countdown_s' = 0
    /\ outcome' = "none"
    /\ start_idx' = -1
    /\ run' = 0
    /\ how' = "none"
    /\ checks' = 0 /\ waits' = 0
    /\ published' = <<>>
    /\ published_run' = <<>>
    /\ published_at_check' = 0
    /\ last_check' = NoCheck
    /\ UNCHANGED << plan, plan_state, estVars, pc, rd_x, rd_y, cbVars,
                    leadVars, at_start >>

\* The outcome leads to a terminal outcome of the plan.
Plan_End ==
    /\ plan_state = "running"
    /\ pc = "idle"
    /\ outcome \in { "Completed", "Aborted", "Next Goal" }
    /\ Wiring(active, outcome, Len(plan)).state # "running"
    /\ plan_state' = Wiring(active, outcome, Len(plan)).state
    /\ UNCHANGED << mission_data, plan, active, goal_idx, goal_idx_float,
                    attrs, goalVars, estVars, published, pc, execLocals,
                    cbVars, outcome, start_idx, run, how, checks, waits,
                    published_at_check, leadVars, at_start, last_check,
                    published_run >>

PlanNext ==
    \/ Plan_Completed
    \/ Plan_SelectGoal
    \/ SetGoal
    \/ Reached_LoadX
    \/ Reached_LoadY
    \/ Reached_LoadYaw
    \/ Sleep
    \/ Execute_CountdownEnded
    \/ Plan_Advance
    \/ Plan_End
    \/ PoseCallback_StoreX
    \/ PoseCallback_StoreY
    \/ PoseCallback_StoreYaw

PlanSpec == PlanInit /\ [][PlanNext]_vars

\* ------------------------------------------------------------- properties
GoalCount == Len(mission_data)

\* The activation has returned (it is not running and did not raise).
Returned == pc = "idle" /\ how \in { "completed", "arrival", "countdown" }

\* The activation ran the whole countdown: every check failed.
Exhausted == pc = "idle" /\ how = "countdown"

\* C1 (first-goal abort): an activation that started with goal index 0 and
\* whose countdown ran out, no arrival check having found the pose within
\* tolerance, returned 'Aborted' after CountdownStart checks, and the goal
\* index is 0 after it.
C1_FirstGoalAbort ==
    (Exhausted /\ start_idx = 0)
        => /\ outcome = "Aborted"
           /\ goal_idx = 0
           /\ checks = CountdownStart

C1_Witness ==
    /\ Exhausted /\ start_idx = 0 /\ GoalCount >= 1
    /\ outcome = "Aborted" /\ goal_idx = 0
    /\ last_check.result = "none" /\ updates_done

\* C2 (mid-mission skip): an activation that started with index k,
\* 0 < k < GoalCount, and exhausted its countdown returned 'Next Goal' with
\* index k + 1; and whenever the last outcome is 'Aborted', the activation
\* that returned it started with index 0.
C2_MidMissionSkip ==
    /\ (Exhausted /\ start_idx > 0)
           => /\ start_idx < GoalCount
              /\ outcome = "Next Goal"
              /\ goal_idx = start_idx + 1
    /\ outcome = "Aborted" => start_idx = 0

C2_Witness ==
    /\ Exhausted /\ start_idx = 1 /\ GoalCount = 2
    /\ outcome = "Next Goal" /\ goal_idx = 2

\* C3 (arrival detection), as claimed: a check that began and ended with a
\* completely stored pose within both tolerances of the published goal
\* found arrival (and execute returned 'Next Goal' at it).
C3_ArrivalDetected ==
    (last_check.at_start = "in" /\ last_check.at_end = "in")
        => /\ last_check.result = "true"
           /\ pc = "idle" /\ outcome = "Next Goal"
           /\ goal_idx = start_idx + 1
           /\ waits = checks - 1

\* C4 (completion): the index counts the 'Next Goal' outcomes since it was
\* last 0, so after GoalCount of them it is GoalCount; an activation that
\* starts with index >= GoalCount returns 'Completed' with the index reset
\* to 0, nothing published, no check and no wait; and only such an
\* activation returns 'Completed'.
C4_Completion ==
    /\ pc = "idle" => run = goal_idx
    /\ (start_idx >= GoalCount)
           => /\ pc = "idle" /\ outcome = "Completed"
              /\ goal_idx = 0 /\ ~goal_idx_float
              /\ published = <<>> /\ checks = 0 /\ waits = 0
    /\ outcome = "Completed" => start_idx >= GoalCount

C4_Witness ==
    /\ GoalCount = 2 /\ start_idx = 2
    /\ outcome = "Completed" /\ goal_idx = 0 /\ published = <<>>

\* C5 (index range): the goal index is always in 0..GoalCount, and between
\* activations it equals GoalCount exactly when the next activation is the
\* one that returns 'Completed'.
C5_IndexRange ==
    /\ goal_idx \in 0..GoalCount
    /\ pc = "idle" => ((goal_idx = GoalCount) <=> ENABLED Execute_Completed)

C5_Witness ==
    /\ pc = "idle" /\ GoalCount = 2 /\ goal_idx = GoalCount
    /\ outcome = "Next Goal" /\ how = "countdown"

\* C6 (consistent pose snapshot), as claimed: every finished arrival check
\* computed its distance and angle from the x, y and heading of one feedback
\* update, so from a pose that the feedback delivered, never from a mix of
\* the fields of two updates.
C6_ConsistentSnapshot == ~last_check.mixed

\* The goal the running/last activation selected.
StartGoal == mission_data[start_idx + 1]

C8_EmptyMission ==
    GoalCount = 0
        => /\ pc = "idle"
           /\ outcome \in { "none", "Completed" }
           /\ published = <<>> /\ checks = 0 /\ waits = 0
           /\ goal_idx = 0 /\ ~goal_idx_float

C8_Witness ==
    GoalCount = 0 /\ outcome = "Completed" /\ start_idx = 0 /\ updates_done

\* C9 (one command per goal attempt): from setGoal on, an activation that
\* started with index k < GoalCount has published exactly one message, with
\* the position of goal k and the rotation of its heading; it was published
\* before the first arrival check began; before setGoal and in an activation
\* that returned 'Completed' nothing is published.
C9_OneCommand ==
    /\ (pc \in { "loop", "load_y", "load_yaw", "sleep" }
            \/ (pc = "idle" /\ how \in { "arrival", "countdown" }))
           => /\ start_idx < GoalCount
              /\ Len(published) = 1
              /\ published[1].position =
                     [x |-> StartGoal.x_m, y |-> StartGoal.y_m, z |-> 0]
              /\ published[1].orientation =
                     quaternion_from_euler(StartGoal.yaw_rad)
    /\ checks >= 1 => published_at_check = 1
    /\ (pc = "setGoal" \/ outcome = "Completed") => published = <<>>

C9_Witness ==
    /\ pc = "idle" /\ how = "countdown" /\ start_idx = 1
    /\ StartGoal = Goal(5 * Grid, 0, 0)
    /\ Len(published) = 1 /\ published[1].position.x = 5 * Grid
    /\ checks = CountdownStart

\* C10 (freshness never reverts): once a feedback callback has returned, a
\* complete pose estimate is stored in every later state, and no arrival
\* check that finishes afterwards has taken the "no estimated pose" branch.
C10_FreshnessKept ==
    /\ [](updates_done => EstimatedAttrs \subseteq attrs)
    /\ [][(updates_done /\ last_check' # last_check)
              => last_check'.result # "except"]_vars

C10_Witness ==
    /\ updates_done /\ pc = "sleep" /\ checks = CountdownStart
    /\ last_check.result = "false" /\ start_idx = 1

\* C11 (two-goal scenario): with the mission [G0 (0,0,0), G1 (5,0,0)] and
\* the pose (0,0,0) stored before the first check and never updated, the
\* activation that starts at index 0 returns 'Next Goal' at its first check
\* (no wait) and leaves index 1; the one that starts at index 1 returns
\* 'Next Goal' only by the countdown, after 4 checks and 4 waits, and leaves
\* index 2; the one that starts at index 2 returns 'Completed' at once and
\* leaves index 0.
C11_TwoGoalScenario ==
    mission_data = << Goal(0, 0, 0), Goal(5 * Grid, 0, 0) >>
        => /\ (start_idx = 0 /\ checks >= 1 /\ pc \notin { "load_y", "load_yaw" })
                  => /\ pc = "idle" /\ how = "arrival"
                     /\ checks = 1 /\ waits = 0
                     /\ outcome = "Next Goal" /\ goal_idx = 1
           /\ (start_idx = 1 /\ pc = "idle")
                  => /\ how = "countdown"
                     /\ checks = 4 /\ waits = 4
                     /\ outcome = "Next Goal" /\ goal_idx = 2
           /\ start_idx = 2
                  => /\ pc = "idle" /\ outcome = "Completed"
                     /\ goal_idx = 0 /\ ~goal_idx_float

C11_Witness ==
    /\ mission_data = << Goal(0, 0, 0), Goal(5 * Grid, 0, 0) >>
    /\ start_idx = 2 /\ outcome = "Completed" /\ goal_idx = 0
    /\ published_run = << GoalMsg(0, 0, 0), GoalMsg(5 * Grid, 0, 0) >>
    /\ << estimated_x_m, estimated_y_m, estimated_yaw_rad >> = ScenarioPose

\* The state of the entered mission has returned and the plan has not yet
\* followed the transition of its outcome.
AtOutcome(out) == plan_state = "running" /\ pc = "idle" /\ outcome = out

\* C12 (plan wiring): after 'Next Goal' the plan executes the state of the
\* same mission again and nothing else; after 'Completed' it enters the
\* state of the next mission (from index 0), or ends in success when the
\* mission was the last; after 'Aborted' it ends in failure, and from the
\* 'Aborted' on no state is executed, no mission is entered and nothing is
\* published.
C12_PlanWiring ==
    /\ [](AtOutcome("Next Goal")
             => /\ ENABLED Plan_SelectGoal \/ ENABLED Plan_Completed
                /\ ~ENABLED Plan_Advance /\ ~ENABLED Plan_End)
    /\ [](AtOutcome("Completed")
             => /\ ~ENABLED Plan_SelectGoal /\ ~ENABLED Plan_Completed
                /\ IF active < Len(plan)
                   THEN ENABLED Plan_Advance /\ ~ENABLED Plan_End
                   ELSE ENABLED Plan_End /\ ~ENABLED Plan_Advance)
    /\ [](AtOutcome("Aborted")
             => /\ ~ENABLED Plan_SelectGoal /\ ~ENABLED Plan_Completed
                /\ ~ENABLED Plan_Advance /\ ENABLED Plan_End)
    /\ [](plan_state = "Failure" => pc = "idle" /\ outcome = "Aborted")
    /\ [](plan_state = "Success"
             => pc = "idle" /\ outcome = "Completed" /\ active = Len(plan))
    /\ [][active' # active
             => /\ outcome = "Completed" /\ active' = active + 1
                /\ mission_data' = plan[active'] /\ goal_idx' = 0
                /\ pc' = "idle"]_vars
    /\ [][outcome = "Aborted"
             => /\ UNCHANGED << active, mission_data, pc, outcome, start_idx,
                               published, published_run >>
                /\ plan_state' \in { plan_state, "Failure" }]_vars

C12_Witness ==
    /\ plan_state = "Failure" /\ outcome = "Aborted"
    /\ Len(plan) = 2 /\ active = 1
    /\ published_run = << GoalMsg(0, 0, 0) >>
    /\ updates_done

\* execute is between setGoal and its return: in the wait loop.
InWaitLoop == pc \in { "loop", "load_y", "load_yaw", "sleep" }

\* C13 (active-goal snapshot): all through the wait loop, so at every arrival
\* check, the stored active goal is the goal at the activation's start index
\* and the goal of the one message this activation published, never what an
\* earlier activation left; only setGoal changes it, and no step of the
\* feedback callback does.
C13_ActiveGoalSnapshot ==
    /\ [](InWaitLoop
             => /\ GoalAttrs \subseteq attrs
                /\ ActiveGoal = StartGoal
                /\ published = << GoalMsg(goal_x_m, goal_y_m, goal_yaw_rad) >>)
    /\ [][goalVars' # goalVars => pc = "setGoal"]_vars
    /\ [][cb_pc' # cb_pc
             => /\ UNCHANGED goalVars
                /\ attrs' \cap GoalAttrs = attrs \cap GoalAttrs]_vars

C13_Witness ==
    /\ mission_data = << Goal(0, 0, 0), Goal(5 * Grid, 0, 0) >>
    /\ start_idx = 1 /\ pc = "load_yaw" /\ checks = 2
    /\ ActiveGoal = Goal(5 * Grid, 0, 0)
    /\ cb_pc = "store_yaw"

\* C14 (a stale estimate stays valid): the stored estimate and the
\* attributes holding it change only in steps of the feedback callback, so
\* not when an activation starts, waits or returns; and a check that began
\* with a completely stored pose within tolerance of the active goal, and
\* during which no callback stored anything it loaded, found arrival, so
\* that an activation entered with such a pose from an earlier update
\* returns 'Next Goal' at its first check, without a wait.
C14_StaleEstimateValid ==
    /\ [][cb_pc' = cb_pc
             => /\ UNCHANGED estVars
                /\ attrs' \cap EstimatedAttrs = attrs \cap EstimatedAttrs]_vars
    /\ []((last_check.at_start = "in" /\ ~last_check.torn)
             => /\ last_check.result = "true"
                /\ pc = "idle" /\ how = "arrival" /\ outcome = "Next Goal"
                /\ waits = checks - 1)
    /\ []((pc = "sleep" /\ checks = 1)
             => (last_check.at_start # "in" \/ last_check.torn))

\* Two activations in a row found arrival at their first check with the
\* same pose, stored before the first of them returned.
C14_Witness ==
    /\ mission_data = << Goal(0, 0, 0), Goal(0, 0, 0) >>
    /\ start_idx = 1 /\ pc = "idle" /\ how = "arrival"
    /\ checks = 1 /\ waits = 0 /\ goal_idx = 2
    /\ last_check.at_start = "in" /\ ~last_check.torn
    /\ last_check.at_end = "in" /\ cb_pc = "idle"

\* The arrival condition as claimed, on the stored goal and the stored pose:
\* squared distance <= 0.3^2 and plain |difference of headings| <= 0.7.
ClaimedArrival ==
    /\ 100 * ((goal_x_m - estimated_x_m) * (goal_x_m - estimated_x_m)
              + (goal_y_m - estimated_y_m) * (goal_y_m - estimated_y_m))
           <= 9 * Grid * Grid
    /\ 10 * (goal_yaw_rad - estimated_yaw_rad) <= 7 * Grid
    /\ 10 * (estimated_yaw_rad - goal_yaw_rad) <= 7 * Grid

\* C15 (arrival predicate): applied to a goal and a stored pose,
\* reachedGoalWithTolerance returns true exactly when all three pose
\* attributes are stored, the distance is <= 0.3 and the plain absolute
\* difference of the headings is <= 0.7, both bounds included and the same
\* for every goal; when an attribute is missing it takes the except branch
\* and returns false; in every other case it returns false.
C15_ArrivalPredicate ==
    last_check.result # "none"
        => /\ (last_check.result = "true")
                  <=> (EstimatedAttrs \subseteq attrs /\ ClaimedArrival)
           /\ (last_check.result = "except")
                  <=> ~(EstimatedAttrs \subseteq attrs)
           /\ pc = IF last_check.result = "true" THEN "idle" ELSE "sleep"

\* Accepted exactly on both bounds: 0.3 m from the goal (5,0,0), 0.7 rad off.
C15_Witness ==
    /\ last_check.result = "true"
    /\ ActiveGoal = Goal(5 * Grid, 0, 0)
    /\ << estimated_x_m, estimated_y_m, estimated_yaw_rad >>
           = << 53 * Tenth, 0, -7 * Tenth >>

\* A bound on the steps execute still takes before it returns.
StepsLeft ==
    CASE pc = "setGoal" -> 18
      [] pc = "loop" -> 4 * countdown_s + 1
      [] pc = "load_y" -> 4 * countdown_s
      [] pc = "load_yaw" -> 4 * countdown_s - 1
      [] pc = "sleep" -> 4 * countdown_s - 2
      [] OTHER -> 0

\* C16 (bounded wait): an activation makes at most 4 arrival checks and at
\* most 4 one-unit waits; one that ran out the countdown made exactly 4 of
\* each; one that found arrival at its j-th check (1 <= j <= 4) made j - 1
\* waits. And it terminates whatever the feedback does: inside an activation
\* a step of execute is always possible, only steps of execute move it, and
\* each of them lowers a bound on the steps left that is never negative.
C16_BoundedWait ==
    /\ [](checks \in 0..4 /\ waits \in 0..4)
    /\ [](Exhausted => (checks = 4 /\ waits = 4))
    /\ []((pc = "idle" /\ how = "arrival")
             => (checks \in 1..4 /\ waits = checks - 1))
    /\ []((pc = "setGoal" \/ InWaitLoop)
             => (ENABLED ExecuteStep /\ StepsLeft \in 1..18))
    /\ [][(pc # "idle" /\ pc' # pc) => StepsLeft' < StepsLeft]_vars
    /\ [][(pc # "idle" /\ cb_pc' # cb_pc) => StepsLeft' = StepsLeft]_vars

C16_Witness ==
    /\ pc = "idle" /\ how = "arrival" /\ outcome = "Next Goal"
    /\ checks = 3 /\ waits = 2 /\ countdown_s = 2

\* C17 (index updates): the goal index changes only in the step in which
\* execute returns, by +1 with 'Next Goal' and to 0 with 'Completed'; every
\* return with 'Next Goal' adds exactly 1, every return with 'Completed' or
\* 'Aborted' leaves 0; from setGoal to the last wait the index is the one
\* the activation started with; the goal list never changes; and a step of
\* the feedback callback leaves index, goal list and active goal as they are.
C17_IndexUpdates ==
    /\ [][goal_idx' # goal_idx
             => /\ pc' = "idle"
                /\ \/ outcome' = "Next Goal" /\ goal_idx' = goal_idx + 1
                   \/ outcome' = "Completed" /\ goal_idx' = 0]_vars
    /\ [][(pc' = "idle" /\ (pc # "idle" \/ how' = "completed"))
             => \/ outcome' = "Next Goal" /\ goal_idx' = goal_idx + 1
                \/ outcome' \in { "Completed", "Aborted" } /\ goal_idx' = 0]_vars
    /\ []((pc = "setGoal" \/ InWaitLoop) => goal_idx = start_idx)
    /\ [][mission_data' = mission_data]_vars
    /\ [][cb_pc' # cb_pc
             => UNCHANGED << goal_idx, goal_idx_float, mission_data,
                             goalVars >>]_vars

C17_Witness ==
    /\ GoalCount = 2 /\ goal_idx = 2 /\ start_idx = 1 /\ run = 2
    /\ pc = "idle" /\ how = "arrival" /\ outcome = "Next Goal"
    /\ cb_pc = "store_y"

\* The message setGoal publishes for the i-th goal of the mission.
MsgOfGoal(i) ==
    GoalMsg(mission_data[i].x_m, mission_data[i].y_m, mission_data[i].yaw_rad)

\* C18 (traversal order): the goals published since the run of the mission
\* began at index 0 are the first goals of the list, in list order, each
\* once; between activations of the run there are as many as the index; when
\* the run has ended with 'Completed' they are the whole list, and when it
\* has ended with 'Aborted' they are the first goal alone.
C18_TraversalOrder ==
    /\ Len(published_run) <= GoalCount
    /\ \A i \in 1..Len(published_run) : published_run[i] = MsgOfGoal(i)
    /\ (pc = "idle" /\ outcome = "Next Goal") => Len(published_run) = goal_idx
    /\ outcome = "Completed" => Len(published_run) = GoalCount
    /\ outcome = "Aborted" => Len(published_run) = 1

\* The whole list [G1 (5,0,0), G0 (0,0,0)] published in order, the first goal
\* reached and the second skipped.
C18_Witness ==
    /\ mission_data = << Goal(5 * Grid, 0, 0), Goal(0, 0, 0) >>
    /\ outcome = "Completed"
    /\ published_run = << GoalMsg(5 * Grid, 0, 0), GoalMsg(0, 0, 0) >>
    /\ << estimated_x_m, estimated_y_m, estimated_yaw_rad >>
           = << 5 * Grid, 0, 0 >>
    /\ countdown_s = 0

\* C19 (the run of a mission terminates): a run that has begun or is about
\* to begin leads, whatever the feedback does, to an activation that returns
\* 'Completed' or 'Aborted'; at most GoalCount activations of a run return
\* 'Next Goal', so the one that ends it is at most the (GoalCount + 1)-th;
\* 'Completed' is returned by the activation that starts at index GoalCount
\* and 'Aborted' only by the first activation of a run, the one that starts
\* at index 0 with no 'Next Goal' before it.
C19_RunTerminates ==
    /\ [](run <= GoalCount /\ start_idx <= GoalCount)
    /\ [](outcome = "Completed" => start_idx = GoalCount)
    /\ [](outcome = "Aborted" => (start_idx = 0 /\ Len(published_run) = 1))
    /\ (outcome \in { "none", "running", "Next Goal" })
           ~> (pc = "idle" /\ outcome \in { "Completed", "Aborted" })

C19_Witness ==
    /\ GoalCount = 2 /\ start_idx = GoalCount /\ outcome = "Completed"
    /\ Len(published_run) = 2 /\ pc = "idle" /\ cb_pc = "store_yaw"

\* C20 (no check after the last wait): a failed arrival check, the 4th as
\* well, is followed by a one-unit wait and by no other step of execute; when
\* the countdown is at 0 there have been 4 checks and 4 waits, no check can
\* begin, and the next step of execute returns by the countdown with the
\* outcome fixed by the start index ('Aborted' and index 0 at index 0, else
\* 'Next Goal' and the next index), whatever pose is stored by then, so also
\* one that came within tolerance during the last wait.
C20_NoCheckAfterLastWait ==
    /\ [](pc = "sleep"
             => /\ last_check.result \in { "false", "except" }
                /\ ENABLED Sleep)
    /\ [][(pc = "sleep" /\ pc' # pc)
             => (waits' = waits + 1 /\ checks' = checks /\ pc' = "loop")]_vars
    /\ []((pc = "loop" /\ countdown_s = 0)
             => /\ checks = 4 /\ waits = 4
                /\ ~ENABLED Reached_LoadX
                /\ ENABLED Execute_CountdownEnded)
    /\ [][(pc = "loop" /\ countdown_s = 0 /\ pc' # pc)
             => /\ pc' = "idle" /\ how' = "countdown" /\ checks' = checks
                /\ outcome' = IF start_idx = 0 THEN "Aborted" ELSE "Next Goal"
                /\ goal_idx' = IF start_idx = 0 THEN 0 ELSE start_idx + 1]_vars

\* The first goal's activation returned 'Aborted' after 4 failed checks
\* although a pose within tolerance was stored when it left the loop.
C20_Witness ==
    /\ Exhausted /\ start_idx = 0 /\ outcome = "Aborted" /\ goal_idx = 0
    /\ checks = 4 /\ waits = 4
    /\ last_check.at_end = "in"

====
